---- MODULE Spec2Model ----
(***************************************************************************)
(* Model of the KPU virtual CPU (src/src/lib.rs): a register file of five  *)
(* u8 registers, a 1024-byte buffer viewed as 64 text slots of 4 bytes     *)
(* followed by 768 data bytes, and the operations new, reset, load, step.  *)
(* A Rust panic (slice index out of bounds, checked arithmetic overflow)   *)
(* is modelled by the variable fault; a panicked Kpu takes no more calls.  *)
(***************************************************************************)
EXTENDS Integers, Sequences, FiniteSets, TLC

VARIABLES reg, bytes, fault, last, nloads, nresets, nhalts, padding, codec,
          setup, nsteps, written

vars == <<reg, bytes, fault, last, nloads, nresets, nhalts, padding, codec,
          setup, nsteps, written>>

----------------------------------------------------------------------------
(* Bounds of the exploration *)

MaxLoads == 2

MaxResets == 1

\* load is explored in the states whose instruction pointer is at most this
MaxLoadIp == 1

\* consecutive step() calls returning Halt are counted up to this
MaxHalts == 2

\* step() calls since the last new, load or reset are counted up to this
MaxSteps == 8

----------------------------------------------------------------------------
(* Program constants *)

MEM_SIZE == 1024

TEXT_SIZE == MEM_SIZE \div 4

DATA_SIZE == MEM_SIZE - TEXT_SIZE

OP_SIZE == 4

SIZE_OF_U32 == 4

U8_MODULUS == 256

TEXT_SLOTS == TEXT_SIZE \div OP_SIZE

Byte == 0 .. (U8_MODULUS - 1)

Reg == {"R0", "R1", "R2", "R3", "IP"}

----------------------------------------------------------------------------
(* enum Op: constructors of the seven variants *)

Nop == [tag |-> "Nop"]

Halt == [tag |-> "Halt"]

MoveRegImm(dst, imm) == [tag |-> "MoveRegImm", dst |-> dst, imm |-> imm]

MoveRegReg(dst, src) == [tag |-> "MoveRegReg", dst |-> dst, src |-> src]

MoveMemImm(mem_high, mem_low, imm) ==
    [tag |-> "MoveMemImm", mem_high |-> mem_high, mem_low |-> mem_low, imm |-> imm]

MoveMemReg(mem_high, mem_low, src) ==
    [tag |-> "MoveMemReg", mem_high |-> mem_high, mem_low |-> mem_low, src |-> src]

MoveRegMem(dst, mem_high, mem_low) ==
    [tag |-> "MoveRegMem", dst |-> dst, mem_high |-> mem_high, mem_low |-> mem_low]

(* The value a transmute yields for a tag or register byte that names no   *)
(* variant (undefined behaviour; no state reachable through new, load,     *)
(* step and reset holds such a slot, see TextWellFormed).                  *)
InvalidOp == [tag |-> "Invalid"]

----------------------------------------------------------------------------
(* Codec: #[repr(u8)] layout of Op and of Reg, Op::bytes and the transmute *)
(* in step.                                                                *)

RegCode(r) ==
    CASE r = "R0" -> 0
      [] r = "R1" -> 1
      [] r = "R2" -> 2
      [] r = "R3" -> 3
      [] r = "IP" -> 4

RegOfCode(c) ==
    CASE c = 0 -> "R0"
      [] c = 1 -> "R1"
      [] c = 2 -> "R2"
      [] c = 3 -> "R3"
      [] c = 4 -> "IP"
      [] OTHER -> "BadReg"

OpTag(op) ==
    CASE op.tag = "Nop" -> 0
      [] op.tag = "MoveRegImm" -> 16
      [] op.tag = "MoveRegReg" -> 17
      [] op.tag = "MoveMemImm" -> 32
      [] op.tag = "MoveMemReg" -> 33
      [] op.tag = "MoveRegMem" -> 34
      [] op.tag = "Halt" -> 255

(* Op::bytes: the tag in byte 0, the fields in declaration order; the      *)
(* bytes no field occupies are padding, uninitialised in the Op value, so  *)
(* their content is whatever the build left there (pad).                   *)
OpBytes(op, pad) ==
    CASE op.tag = "Nop" -> <<OpTag(op), pad, pad, pad>>
      [] op.tag = "MoveRegImm" -> <<OpTag(op), RegCode(op.dst), op.imm, pad>>
      [] op.tag = "MoveRegReg" -> <<OpTag(op), RegCode(op.dst), RegCode(op.src), pad>>
      [] op.tag = "MoveMemImm" -> <<OpTag(op), op.mem_high, op.mem_low, op.imm>>
      [] op.tag = "MoveMemReg" -> <<OpTag(op), op.mem_high, op.mem_low, RegCode(op.src)>>
      [] op.tag = "MoveRegMem" -> <<OpTag(op), RegCode(op.dst), op.mem_high, op.mem_low>>
      [] op.tag = "Halt" -> <<OpTag(op), pad, pad, pad>>

ValidRegCode(c) == c \in 0 .. 4

\* variant of Decode that reads the offset bytes of MoveRegMem in the other order
DecodeOffsetSwapped(b) ==
    CASE b[1] = 0 -> Nop
      [] b[1] = 16 /\ ValidRegCode(b[2]) -> MoveRegImm(RegOfCode(b[2]), b[3])
      [] b[1] = 17 /\ ValidRegCode(b[2]) /\ ValidRegCode(b[3]) ->
            MoveRegReg(RegOfCode(b[2]), RegOfCode(b[3]))
      [] b[1] = 32 -> MoveMemImm(b[2], b[3], b[4])
      [] b[1] = 33 /\ ValidRegCode(b[4]) -> MoveMemReg(b[2], b[3], RegOfCode(b[4]))
      [] b[1] = 34 /\ ValidRegCode(b[2]) -> MoveRegMem(RegOfCode(b[2]), b[4], b[3])
      [] b[1] = 255 -> Halt
      [] OTHER -> InvalidOp

\* the transmute of the fetched slot in step
Decode(b) ==
    CASE b[1] = 0 -> Nop
      [] b[1] = 16 /\ ValidRegCode(b[2]) -> MoveRegImm(RegOfCode(b[2]), b[3])
      [] b[1] = 17 /\ ValidRegCode(b[2]) /\ ValidRegCode(b[3]) ->
            MoveRegReg(RegOfCode(b[2]), RegOfCode(b[3]))
      [] b[1] = 32 -> MoveMemImm(b[2], b[3], b[4])
      [] b[1] = 33 /\ ValidRegCode(b[4]) -> MoveMemReg(b[2], b[3], RegOfCode(b[4]))
      [] b[1] = 34 /\ ValidRegCode(b[2]) -> MoveRegMem(RegOfCode(b[2]), b[3], b[4])
      [] b[1] = 255 -> Halt
      [] OTHER -> InvalidOp

----------------------------------------------------------------------------
(* struct Memory: one buffer, text = bytes[..TEXT_SIZE] as 4-byte slots,   *)
(* data = bytes[TEXT_SIZE..]                                               *)

TextAddr(slot, k) == slot * OP_SIZE + k

\* variant of DataAddr in which the data view starts inside the text segment
DataAddrOverlapping(offset) == TEXT_SIZE - OP_SIZE + offset

DataAddr(offset) == TEXT_SIZE + offset

TextSlot(b, slot) ==
    <<b[TextAddr(slot, 0)], b[TextAddr(slot, 1)], b[TextAddr(slot, 2)], b[TextAddr(slot, 3)]>>

DataByte(b, offset) == b[DataAddr(offset)]

ZeroBytes == [a \in 0 .. (MEM_SIZE - 1) |-> 0]

ZeroRegisters == [r \in Reg |-> 0]

\* variant of from_be_bytes that takes the low byte first
from_le_bytes(mem_high, mem_low) == mem_low * 256 + mem_high

(* u16::from_be_bytes([mem_high, mem_low]) *)
from_be_bytes(mem_high, mem_low) == mem_high * 256 + mem_low

----------------------------------------------------------------------------
(* Kpu::reg and Kpu::reg_mut *)

\* variant of reg_ref that always reads r0
reg_ref_r0(r, src) == r["R0"]

reg_ref(r, src) == r[src]

\* variant of reg_mut whose store is two bytes wide and zeroes the register
\* that follows dst in struct Registers
reg_mut_wide(r, dst, v) ==
    CASE dst = "R0" -> [r EXCEPT !["R0"] = v, !["R1"] = 0]
      [] dst = "R1" -> [r EXCEPT !["R1"] = v, !["R2"] = 0]
      [] dst = "R2" -> [r EXCEPT !["R2"] = v, !["R3"] = 0]
      [] dst = "R3" -> [r EXCEPT !["R3"] = v, !["IP"] = 0]
      [] dst = "IP" -> [r EXCEPT !["IP"] = v]

reg_mut(r, dst, v) == [r EXCEPT ![dst] = v]

----------------------------------------------------------------------------
(* Kpu::reset *)

\* variant of ResetRegisters that forgets the instruction pointer
ResetRegistersKeepIp(r) == [x \in Reg |-> IF x = "IP" THEN r[x] ELSE 0]

ResetRegisters(r) == [x \in Reg |-> 0]

\* variant of FillZero that clears the data view only
FillZeroData(b) == [a \in DOMAIN b |-> IF a < TEXT_SIZE THEN b[a] ELSE 0]

FillZero(b) == [a \in DOMAIN b |-> 0]

----------------------------------------------------------------------------
(* Kpu::load *)

program_size(ops) == Len(ops) * SIZE_OF_U32

\* variant of TooLarge that rejects a program filling the text segment exactly
TooLargeOffByOne(size) == size >= TEXT_SIZE

TooLarge(size) == size > TEXT_SIZE

Ok == [tag |-> "Ok"]

LoadErrorSize(size) == [tag |-> "Err", size_of_loaded_program |-> size]

\* variant of copy_program that starts from a cleared data segment
copy_program_clearing_data(b, ops, pad) ==
    [a \in DOMAIN b |->
        IF a < TEXT_SIZE
        THEN (IF (a \div OP_SIZE) < Len(ops)
              THEN OpBytes(ops[(a \div OP_SIZE) + 1], pad)[(a % OP_SIZE) + 1]
              ELSE b[a])
        ELSE 0]

\* variant of copy_program that zeroes the text slots after the program
copy_program_clearing(b, ops, pad) ==
    [a \in DOMAIN b |->
        IF a < TEXT_SIZE
        THEN (IF (a \div OP_SIZE) < Len(ops)
              THEN OpBytes(ops[(a \div OP_SIZE) + 1], pad)[(a % OP_SIZE) + 1]
              ELSE 0)
        ELSE b[a]]

\* ops.iter().zip(self.mem.text.iter_mut()) with copy_from_slice(op.bytes())
copy_program(b, ops, pad) ==
    [a \in DOMAIN b |->
        IF a < TEXT_SIZE /\ (a \div OP_SIZE) < Len(ops)
        THEN OpBytes(ops[(a \div OP_SIZE) + 1], pad)[(a % OP_SIZE) + 1]
        ELSE b[a]]

\* variant of load that copies before it checks the size
load_copy_first(b, ops, pad) ==
    IF TooLarge(program_size(ops))
    THEN [bytes |-> copy_program(b, ops, pad), ret |-> LoadErrorSize(program_size(ops))]
    ELSE [bytes |-> copy_program(b, ops, pad), ret |-> Ok]

load(b, ops, pad) ==
    IF TooLarge(program_size(ops))
    THEN [bytes |-> b, ret |-> LoadErrorSize(program_size(ops))]
    ELSE [bytes |-> copy_program(b, ops, pad), ret |-> Ok]

----------------------------------------------------------------------------
(* Kpu::step *)

NoReturn == [tag |-> "Panic"]

\* variant of data_write that indexes the buffer without the bounds check
data_write_unchecked(r, b, offset, v) ==
    IF DataAddr(offset) < MEM_SIZE
    THEN [reg |-> r, bytes |-> [b EXCEPT ![DataAddr(offset)] = v], fault |-> "none"]
    ELSE [reg |-> r, bytes |-> b, fault |-> "none"]

\* self.mem.data[offset] = v, a bounds-checked index into [u8; DATA_SIZE]
data_write(r, b, offset, v) ==
    IF offset >= DATA_SIZE
    THEN [reg |-> r, bytes |-> b, fault |-> "data_index"]
    ELSE [reg |-> r, bytes |-> [b EXCEPT ![DataAddr(offset)] = v], fault |-> "none"]

\* variant of data_read that drops the value it read
data_read_dropped(r, b, dst, offset) ==
    IF offset >= DATA_SIZE
    THEN [reg |-> r, bytes |-> b, fault |-> "data_index"]
    ELSE [reg |-> r, bytes |-> b, fault |-> "none"]

\* self.reg_mut(dst).full = self.mem.data[offset]
data_read(r, b, dst, offset) ==
    IF offset >= DATA_SIZE
    THEN [reg |-> r, bytes |-> b, fault |-> "data_index"]
    ELSE [reg |-> reg_mut(r, dst, DataByte(b, offset)), bytes |-> b, fault |-> "none"]

\* the match on the decoded instruction
execute(op, r, b) ==
    CASE op.tag = "MoveMemImm" ->
            data_write(r, b, from_be_bytes(op.mem_high, op.mem_low), op.imm)
      [] op.tag = "MoveMemReg" ->
            data_write(r, b, from_be_bytes(op.mem_high, op.mem_low), reg_ref(r, op.src))
      [] op.tag = "MoveRegImm" ->
            [reg |-> reg_mut(r, op.dst, op.imm), bytes |-> b, fault |-> "none"]
      [] op.tag = "MoveRegReg" ->
            [reg |-> reg_mut(r, op.dst, reg_ref(r, op.src)), bytes |-> b, fault |-> "none"]
      [] op.tag = "MoveRegMem" ->
            data_read(r, b, op.dst, from_be_bytes(op.mem_high, op.mem_low))
      [] op.tag = "Halt" -> [reg |-> r, bytes |-> b, fault |-> "none"]
      [] op.tag = "Nop" -> [reg |-> r, bytes |-> b, fault |-> "none"]

\* variant of ReturnsEarly in which Nop stops the processor as well
ReturnsEarlyOnNop(op) == op.tag \in {"Halt", "Nop"}

\* variant of ReturnsEarly in which Halt falls through to the increment
ReturnsEarlyNever(op) == FALSE

\* Op::Halt => return Op::Halt
ReturnsEarly(op) == op.tag = "Halt"

\* variant of IncrementIp that skips a slot
IncrementIpByTwo(ip) == ip + 2

\* self.reg.ip.full += 1 on a u8: a value of 256 panics when overflow checks
\* are compiled in (debug profile) and wraps otherwise (release profile)
IncrementIp(ip) == ip + 1

step(r, b, checks) ==
    IF r["IP"] >= TEXT_SLOTS
    THEN [reg |-> r, bytes |-> b, ret |-> NoReturn, fault |-> "text_index"]
    ELSE
      LET op == Decode(TextSlot(b, r["IP"])) IN
      IF op.tag = "Invalid"
      THEN [reg |-> r, bytes |-> b, ret |-> NoReturn, fault |-> "invalid_op"]
      ELSE
        LET e == execute(op, r, b) IN
        IF e.fault # "none"
        THEN [reg |-> e.reg, bytes |-> e.bytes, ret |-> NoReturn, fault |-> e.fault]
        ELSE IF ReturnsEarly(op)
        THEN [reg |-> e.reg, bytes |-> e.bytes, ret |-> Halt, fault |-> "none"]
        ELSE IF IncrementIp(e.reg["IP"]) >= U8_MODULUS /\ checks
        THEN [reg |-> e.reg, bytes |-> e.bytes, ret |-> NoReturn, fault |-> "ip_overflow"]
        ELSE [reg |-> reg_mut(e.reg, "IP", IncrementIp(e.reg["IP"]) % U8_MODULUS),
              bytes |-> e.bytes, ret |-> op, fault |-> "none"]

----------------------------------------------------------------------------
(* Inputs: the programs handed to load *)

\* src/api_test/src/main.rs
TestProgram ==
    << MoveRegImm("R0", 3), MoveRegReg("R1", "R0"), Nop, MoveMemImm(0, 19, 42),
       MoveMemReg(0, 19, "R1"), MoveRegMem("R3", 0, 19), Halt >>

\* a program that fills the text segment exactly
Full64 ==
    [i \in 1 .. TEXT_SLOTS |->
        IF i % 2 = 1 THEN MoveRegImm("R2", i) ELSE MoveMemImm(0, i, 200 + (i \div 2))]

\* one instruction more than the text segment holds
Over65 == Full64 \o <<Halt>>

Programs ==
    { <<>>,
      TestProgram,
      Full64,
      Over65,
      <<Halt>>,
      <<MoveRegImm("R1", 7), Halt, MoveRegImm("R1", 9), Halt>>,
      <<MoveRegImm("IP", 63)>>,
      <<MoveRegImm("IP", 255)>>,
      <<Nop, MoveRegReg("R2", "IP"), MoveMemReg(0, 1, "IP"), MoveRegMem("IP", 0, 1), Halt>>,
      <<MoveMemImm(2, 255, 9), MoveRegMem("R1", 2, 255), MoveMemImm(3, 0, 7)>>,
      <<MoveRegImm("R3", 8), MoveMemReg(255, 255, "R3")>>,
      <<MoveRegMem("R2", 3, 0)>> }

\* contents of the uninitialised padding bytes of an Op value, as the build
\* leaves them
PadBytes == {0, 170}

----------------------------------------------------------------------------
(* The Kpu as a state machine *)

CodecIdle == [pc |-> "idle", op |-> Nop, out |-> Nop]

Call(op, ip, ops, ret) == [op |-> op, ip |-> ip, ops |-> ops, ret |-> ret]

Unit == [tag |-> "Unit"]

\* the last call other than step: its name, the instruction pointer it left,
\* its program and result, and whether it met a fresh or just reset Kpu
Setup(op, ip, ops, ret, fresh) ==
    [op |-> op, ip |-> ip, ops |-> ops, ret |-> ret, fresh |-> fresh]

\* the data offsets written since construction or the last reset, each with
\* the value written last
NoWrites == [o \in {} |-> 0]

RecordWrite(w, ret, r) ==
    IF ret.tag \in {"MoveMemImm", "MoveMemReg"}
    THEN LET o == 256 * ret.mem_high + ret.mem_low
             v == IF ret.tag = "MoveMemImm" THEN ret.imm ELSE r[ret.src]
         IN [x \in (DOMAIN w) \cup {o} |-> IF x = o THEN v ELSE w[x]]
    ELSE w

\* Kpu::new (Default): zeroed registers, zeroed buffer
Init ==
    /\ reg = ZeroRegisters
    /\ bytes = ZeroBytes
    /\ fault = "none"
    /\ last = Call("new", 0, <<>>, Unit)
    /\ nloads = 0
    /\ nresets = 0
    /\ nhalts = 0
    /\ padding \in PadBytes
    /\ codec = CodecIdle
    /\ setup = Setup("new", 0, <<>>, Unit, TRUE)
    /\ nsteps = 0
    /\ written = NoWrites

Reset ==
    /\ fault = "none"
    /\ nresets < MaxResets
    /\ reg' = ResetRegisters(reg)
    /\ bytes' = FillZero(bytes)
    /\ last' = Call("reset", reg["IP"], <<>>, Unit)
    /\ nresets' = nresets + 1
    /\ nhalts' = 0
    /\ setup' = Setup("reset", reg'["IP"], <<>>, Unit, TRUE)
    /\ nsteps' = 0
    /\ written' = NoWrites
    /\ UNCHANGED <<fault, nloads, padding, codec>>

Load ==
    /\ fault = "none"
    /\ nloads < MaxLoads
    /\ reg["IP"] <= MaxLoadIp
    /\ \E ops \in Programs :
          LET l == load(bytes, ops, padding) IN
          /\ bytes' = l.bytes
          /\ last' = Call("load", reg["IP"], ops, l.ret)
    /\ nloads' = nloads + 1
    /\ nhalts' = 0
    /\ setup' = Setup("load", reg["IP"], last'.ops, last'.ret, last.op \in {"new", "reset"})
    /\ nsteps' = 0
    /\ UNCHANGED <<reg, fault, nresets, padding, codec, written>>

Step ==
    /\ fault = "none"
    /\ \E checks \in BOOLEAN :
          LET s == step(reg, bytes, checks) IN
          /\ reg' = s.reg
          /\ bytes' = s.bytes
          /\ fault' = s.fault
          /\ last' = Call("step", reg["IP"], <<>>, s.ret)
          /\ nhalts' = IF s.ret.tag = "Halt"
                          THEN (IF nhalts < MaxHalts THEN nhalts + 1 ELSE nhalts)
                          ELSE 0
          /\ written' = RecordWrite(written, s.ret, reg)
    /\ nsteps' = IF nsteps < MaxSteps THEN nsteps + 1 ELSE nsteps
    /\ UNCHANGED <<nloads, nresets, padding, codec, setup>>

Next == Reset \/ Load \/ Step

Spec == Init /\ [][Next]_vars

\* every text slot holds the bytes of a valid Op: load copies Op values,
\* reset writes zeros (Nop), and step writes only to data
TextWellFormed ==
    \A i \in 0 .. (TEXT_SLOTS - 1) : Decode(TextSlot(bytes, i)).tag # "Invalid"

----------------------------------------------------------------------------
(* The codec on its own: an Op value is loaded into slot 0 of a fresh Kpu  *)
(* and the slot is decoded the way step decodes it.                        *)

ByteSamples == {0, 3, 4, 5, 17, 34, 128, 255}

CodecOps ==
    {Nop, Halt}
    \cup {MoveRegImm(d, i) : d \in Reg, i \in Byte}
    \cup {MoveRegReg(d, r) : d \in Reg, r \in Reg}
    \cup {MoveMemImm(h, l, i) : h \in ByteSamples, l \in ByteSamples, i \in ByteSamples}
    \cup {MoveMemReg(h, l, r) : h \in ByteSamples, l \in ByteSamples, r \in Reg}
    \cup {MoveRegMem(d, h, l) : d \in Reg, h \in ByteSamples, l \in ByteSamples}

InitCodec ==
    /\ reg = ZeroRegisters
    /\ bytes = ZeroBytes
    /\ fault = "none"
    /\ last = Call("new", 0, <<>>, Unit)
    /\ nloads = 0
    /\ nresets = 0
    /\ nhalts = 0
    /\ padding \in PadBytes
    /\ \E op \in CodecOps : codec = [pc |-> "op", op |-> op, out |-> Nop]
    /\ setup = Setup("new", 0, <<>>, Unit, TRUE)
    /\ nsteps = 0
    /\ written = NoWrites

\* Kpu::load of the one-instruction program
CodecLoad ==
    /\ codec.pc = "op"
    /\ bytes' = load(bytes, <<codec.op>>, padding).bytes
    /\ codec' = [codec EXCEPT !.pc = "loaded"]
    /\ UNCHANGED <<reg, fault, last, nloads, nresets, nhalts, padding, setup, nsteps, written>>

\* the fetch and transmute of step at slot 0
CodecDecode ==
    /\ codec.pc = "loaded"
    /\ codec' = [codec EXCEPT !.pc = "decoded", !.out = Decode(TextSlot(bytes, reg["IP"]))]
    /\ UNCHANGED <<reg, bytes, fault, last, nloads, nresets, nhalts, padding, setup, nsteps,
                 written>>

NextCodec == CodecLoad \/ CodecDecode

SpecCodec == InitCodec /\ [][NextCodec]_vars

----------------------------------------------------------------------------
(* Transitions, told apart by the record of the last call *)

StepTaken == last'.op = "step"

LoadTaken == nloads' = nloads + 1

\* the instruction names IP as its destination register
WritesIp(op) == op.tag \in {"MoveRegImm", "MoveRegReg", "MoveRegMem"} /\ op.dst = "IP"

Returned == last.op = "step" /\ fault = "none"

----------------------------------------------------------------------------
(* Claims *)

\* C1 (as stated): after step() executes any non-Halt instruction, with any
\* register operand in {R0,R1,R2,R3,IP}, IP equals its value before the step
\* plus exactly 1.
C1_IpPlusOneAnyOperand ==
    (Returned /\ last.ret.tag # "Halt") => reg["IP"] = last.ip + 1

\* C1 (amended): after step() returns a non-Halt instruction whose destination
\* register is not IP (the source register may be IP), IP equals its value
\* before the step plus exactly 1.
C1_IpPlusOne ==
    (Returned /\ last.ret.tag # "Halt" /\ ~WritesIp(last.ret)) => reg["IP"] = last.ip + 1

C1_Witness ==
    /\ Returned
    /\ last.ret.tag = "MoveRegReg"
    /\ last.ret.src = "IP"
    /\ last.ret.dst = "R2"
    /\ reg["IP"] = last.ip + 1
    /\ reg["R2"] = last.ip

\* C2: a step() that decodes Halt at slot IP returns Halt and leaves IP, R0-R3
\* and every memory byte unchanged, and after a step() returned Halt the slot
\* at IP still decodes to Halt, so every later step() returns Halt again with
\* IP at the same slot.
C2_HaltStable ==
    /\ [](nhalts > 0 =>
            /\ fault = "none"
            /\ reg["IP"] = last.ip
            /\ reg["IP"] < 64
            /\ bytes[4 * reg["IP"]] = 255)
    /\ [][(StepTaken /\ reg["IP"] < 64 /\ bytes[4 * reg["IP"]] = 255) =>
            /\ last'.ret.tag = "Halt"
            /\ fault' = "none"
            /\ reg' = reg
            /\ bytes' = bytes]_vars

C2_Witness ==
    /\ nhalts = 2
    /\ last.op = "step"
    /\ last.ret.tag = "Halt"
    /\ last.ip = 6
    /\ reg["IP"] = 6
    /\ reg["R3"] = 3

\* C3: in every state reachable by load, step and reset, IP is a valid text
\* slot index, 0 <= IP < 64.
C3_IpInText == reg["IP"] >= 0 /\ reg["IP"] < 64

\* C4: step() is total apart from the two unchecked edges: a step() faults
\* only if the text slot at IP carries a tag that is none of the seven known
\* ones, or the instruction in it uses a data offset of 768 or more.
C4_StepTotal ==
    [][(StepTaken /\ fault' # "none") =>
          /\ reg["IP"] < 64
          /\ LET b == TextSlot(bytes, reg["IP"]) IN
                \/ b[1] \notin {0, 16, 17, 32, 33, 34, 255}
                \/ (b[1] \in {32, 33} /\ b[2] * 256 + b[3] >= 768)
                \/ (b[1] = 34 /\ b[3] * 256 + b[4] >= 768)]_vars

\* C5: load(program) succeeds if and only if len(program) * 4 <= 256; 64
\* instructions load, 65 fail with LoadError::Size whose
\* size_of_loaded_program is len(program) * 4 (260 for 65 instructions).
C5_LoadCapacity ==
    last.op = "load" =>
        /\ (last.ret.tag = "Ok") <=> (Len(last.ops) * 4 <= 256)
        /\ last.ret.tag \in {"Ok", "Err"}
        /\ last.ret.tag = "Err" => last.ret.size_of_loaded_program = Len(last.ops) * 4
        /\ Len(last.ops) = 64 => last.ret.tag = "Ok"
        /\ Len(last.ops) = 65 =>
              (last.ret.tag = "Err" /\ last.ret.size_of_loaded_program = 260)

C5_Witness ==
    /\ last.op = "load"
    /\ Len(last.ops) = 64
    /\ last.ret.tag = "Ok"
    /\ Decode(TextSlot(bytes, 63)) = last.ops[64]

\* C6: a load() that fails with LoadError::Size leaves every byte of the text
\* and data segments and every register unchanged.
C6_FailedLoadNoChange ==
    [][(LoadTaken /\ last'.ret.tag = "Err") => (bytes' = bytes /\ reg' = reg)]_vars

C6_Witness ==
    /\ last.op = "load"
    /\ last.ret.tag = "Err"
    /\ Len(last.ops) = 65
    /\ nloads = 2
    /\ reg["IP"] = 1
    /\ reg["R0"] = 3
    /\ bytes[0] = 16

\* C7: a successful load of n instructions leaves in text slot i, for every
\* i < n, the encoding of program[i] (its tag in byte 0, decoding to
\* program[i]) and leaves every text slot j with n <= j < 64 as it was.
C7_LoadWritesPrefix ==
    [][(LoadTaken /\ last'.ret.tag = "Ok") =>
          /\ \A i \in 0 .. (Len(last'.ops) - 1) :
                /\ TextSlot(bytes', i)[1] = OpTag(last'.ops[i + 1])
                /\ Decode(TextSlot(bytes', i)) = last'.ops[i + 1]
          /\ \A j \in Len(last'.ops) .. 63 :
                \A k \in 0 .. 3 : bytes'[4 * j + k] = bytes[4 * j + k]]_vars

\* a long program, then a shorter one without reset: the tail is still there
C7_Witness ==
    /\ last.op = "load"
    /\ last.ret.tag = "Ok"
    /\ nloads = 2
    /\ nresets = 0
    /\ last.ops = <<Halt>>
    /\ Decode(TextSlot(bytes, 0)) = Halt
    /\ Decode(TextSlot(bytes, 1)) = MoveRegReg("R1", "R0")
    /\ Decode(TextSlot(bytes, 6)) = Halt

\* C8: after reset() all five registers are 0 and every byte of the 1024-byte
\* buffer is 0, as in a freshly constructed Kpu.
C8_ResetZeroes ==
    last.op = "reset" =>
        /\ \A r \in {"R0", "R1", "R2", "R3", "IP"} : reg[r] = 0
        /\ \A a \in 0 .. 1023 : bytes[a] = 0
        /\ DOMAIN bytes = 0 .. 1023

\* reset after the test program ran to its Halt, as main does
C8_Witness ==
    /\ last.op = "reset"
    /\ last.ip = 6
    /\ nloads = 1
    /\ reg["IP"] = 0
    /\ bytes[0] = 0

\* C9: a step() never changes a byte of the text segment (buffer bytes
\* 0..255), and a load() never changes a data byte (buffer bytes 256..1023,
\* data offsets below 768).
C9_SegmentsDisjoint ==
    [][/\ StepTaken => \A a \in 0 .. 255 : bytes'[a] = bytes[a]
       /\ LoadTaken => \A o \in 0 .. 767 : bytes'[256 + o] = bytes[256 + o]]_vars

C9_Witness ==
    /\ Returned
    /\ last.ret = MoveMemImm(0, 19, 42)
    /\ DataByte(bytes, 19) = 42
    /\ Decode(TextSlot(bytes, 3)) = MoveMemImm(0, 19, 42)
    /\ Decode(TextSlot(bytes, 4)) = MoveMemReg(0, 19, "R1")

RegNumber == [r \in Reg |-> CASE r = "R0" -> 0 [] r = "R1" -> 1 [] r = "R2" -> 2
                              [] r = "R3" -> 3 [] r = "IP" -> 4]

LayoutTable(op, b) ==
    CASE op.tag = "Nop" -> b[1] = 0
      [] op.tag = "MoveRegImm" -> b[1] = 16 /\ b[2] = RegNumber[op.dst] /\ b[3] = op.imm
      [] op.tag = "MoveRegReg" ->
            b[1] = 17 /\ b[2] = RegNumber[op.dst] /\ b[3] = RegNumber[op.src]
      [] op.tag = "MoveMemImm" ->
            b[1] = 32 /\ b[2] = op.mem_high /\ b[3] = op.mem_low /\ b[4] = op.imm
      [] op.tag = "MoveMemReg" ->
            b[1] = 33 /\ b[2] = op.mem_high /\ b[3] = op.mem_low /\ b[4] = RegNumber[op.src]
      [] op.tag = "MoveRegMem" ->
            b[1] = 34 /\ b[2] = RegNumber[op.dst] /\ b[3] = op.mem_high /\ b[4] = op.mem_low
      [] op.tag = "Halt" -> b[1] = 255

\* C10: loading an instruction into a text slot and decoding that slot yields
\* the same variant with the same operand fields, and the slot holds the tag
\* in byte 0 and the operands in the bytes of the layout table.
C10_CodecRoundTrip ==
    /\ codec.pc = "decoded" => codec.out = codec.op
    /\ codec.pc \in {"loaded", "decoded"} => LayoutTable(codec.op, TextSlot(bytes, 0))

C10_Witness ==
    /\ codec.pc = "decoded"
    /\ codec.op = MoveRegMem("IP", 255, 4)
    /\ codec.out = MoveRegMem("IP", 255, 4)
    /\ TextSlot(bytes, 0) = <<34, 4, 255, 4>>

\* the test program of main, loaded into a fresh or just reset Kpu
TestProgramLoaded ==
    /\ setup.op = "load"
    /\ setup.fresh
    /\ setup.ret.tag = "Ok"
    /\ setup.ops = << MoveRegImm("R0", 3), MoveRegReg("R1", "R0"), Nop,
                      MoveMemImm(0, 19, 42), MoveMemReg(0, 19, "R1"),
                      MoveRegMem("R3", 0, 19), Halt >>

\* C11: with the test program loaded into a fresh Kpu and stepped: after step
\* 1 R0 = 3; after step 2 R1 = 3; step 3 changes no register other than IP and
\* no memory byte; after step 4 the data byte at offset 19 is 42; after step 5
\* it is 3; after step 6 R3 = 3; step 7 returns Halt and IP stays at 6 from
\* then on.
C11_TestProgramTrace ==
    /\ [](TestProgramLoaded =>
            /\ nsteps >= 1 => (last.op = "step" /\ fault = "none")
            /\ nsteps = 1 => (last.ret = MoveRegImm("R0", 3) /\ reg["R0"] = 3)
            /\ nsteps = 2 => (last.ret = MoveRegReg("R1", "R0") /\ reg["R1"] = 3)
            /\ nsteps = 3 => (last.ret = Nop /\ reg["IP"] = 3)
            /\ nsteps = 4 => (last.ret = MoveMemImm(0, 19, 42) /\ bytes[256 + 19] = 42)
            /\ nsteps = 5 => (last.ret = MoveMemReg(0, 19, "R1") /\ bytes[256 + 19] = 3)
            /\ nsteps = 6 => (last.ret = MoveRegMem("R3", 0, 19) /\ reg["R3"] = 3)
            /\ nsteps >= 7 => (last.ret = Halt /\ reg["IP"] = 6 /\ last.ip = 6))
    /\ [][(TestProgramLoaded /\ nsteps = 2 /\ StepTaken) =>
            /\ \A r \in {"R0", "R1", "R2", "R3"} : reg'[r] = reg[r]
            /\ bytes' = bytes]_vars

C11_Witness ==
    /\ TestProgramLoaded
    /\ nsteps = 8
    /\ nhalts = 2
    /\ reg = [R0 |-> 3, R1 |-> 3, R2 |-> 0, R3 |-> 3, IP |-> 6]
    /\ bytes[256 + 19] = 3

----------------------------------------------------------------------------
(* The move instructions over their operands: one program of moves is      *)
(* loaded into a fresh or just reset Kpu and stepped.                      *)

RegSeq == <<"R0", "R1", "R2", "R3", "IP">>

\* 64 immediates into one register; base 0..3 covers 0..255
RegImmProgram(d, base) == [k \in 1 .. 64 |-> MoveRegImm(d, 64 * base + k - 1)]

\* every pair of a destination in R0..R3 and a source in R0..R3, IP
RegRegProgram ==
    << MoveRegImm("R0", 11), MoveRegImm("R1", 22), MoveRegImm("R2", 33),
       MoveRegImm("R3", 44) >>
    \o [k \in 1 .. 20 |-> MoveRegReg(RegSeq[((k - 1) \div 5) + 1], RegSeq[((k - 1) % 5) + 1])]

\* values written to IP
IpTargets == {0, 62, 63, 64, 254, 255}

OffSeq == << <<1, 2>>, <<2, 1>>, <<0, 0>>, <<0, 19>>, <<0, 255>>, <<1, 0>>, <<2, 255>> >>

\* for each offset: read, write an immediate, read, write a register, read
MemBlock(d, r, j) ==
    LET h == OffSeq[j][1]
        l == OffSeq[j][2]
    IN << MoveRegMem(d, h, l), MoveMemImm(h, l, 100 + j), MoveRegMem(d, h, l),
          IF r = "IP" THEN Nop ELSE MoveRegImm(r, 200 + j),
          MoveMemReg(h, l, r), MoveRegMem(d, h, l) >>

MemProgram(d, r) ==
    MemBlock(d, r, 1) \o MemBlock(d, r, 2) \o MemBlock(d, r, 3) \o MemBlock(d, r, 4)
    \o MemBlock(d, r, 5) \o MemBlock(d, r, 6) \o MemBlock(d, r, 7) \o <<Halt>>

\* offsets at and beyond the data segment size
OutOffsets == { <<3, 0>>, <<3, 1>>, <<255, 255>> }

MovePrograms ==
    {RegImmProgram(d, base) : d \in {"R0", "R1", "R2", "R3"}, base \in 0 .. 3}
    \cup {<<MoveRegImm("IP", i)>> : i \in IpTargets}
    \cup {RegRegProgram}
    \cup {<<MoveRegImm(r, v), MoveRegReg("IP", r)>> : r \in {"R0", "R3"}, v \in {62, 255}}
    \cup {<<Nop, MoveRegReg("IP", "IP")>>}
    \cup {MemProgram(dr[1], dr[2]) :
            dr \in { <<"R0", "R1">>, <<"R1", "R2">>, <<"R2", "R3">>, <<"R3", "R0">>,
                     <<"R0", "R0">>, <<"R1", "IP">> }}
    \cup {<<MoveMemImm(0, 19, v), MoveRegMem("IP", 0, 19)>> : v \in {62, 255}}
    \cup {<<MoveMemImm(o[1], o[2], 7)>> : o \in OutOffsets}
    \cup {<<MoveRegImm("R1", 5), MoveMemReg(o[1], o[2], "R1")>> : o \in OutOffsets}
    \cup {<<MoveRegMem("R2", o[1], o[2])>> : o \in OutOffsets}

LoadMoves ==
    /\ fault = "none"
    /\ nloads < MaxLoads
    /\ last.op \in {"new", "reset"}
    /\ \E ops \in MovePrograms :
          LET l == load(bytes, ops, padding) IN
          /\ bytes' = l.bytes
          /\ last' = Call("load", reg["IP"], ops, l.ret)
    /\ nloads' = nloads + 1
    /\ nhalts' = 0
    /\ setup' = Setup("load", reg["IP"], last'.ops, last'.ret, last.op \in {"new", "reset"})
    /\ nsteps' = 0
    /\ UNCHANGED <<reg, fault, nresets, padding, codec, written>>

NextMoves == LoadMoves \/ Step \/ Reset

SpecMoves == Init /\ [][NextMoves]_vars

\* C12 (as stated): after step() executes MoveRegImm{dst, imm}, register dst
\* holds imm; after MoveRegReg{dst, src}, register dst holds the value src
\* held before the step; for every dst and src in {R0,R1,R2,R3,IP}.
C12_RegisterMovesAnyDst ==
    [][(StepTaken /\ fault' = "none") =>
          /\ last'.ret.tag = "MoveRegImm" => reg'[last'.ret.dst] = last'.ret.imm
          /\ last'.ret.tag = "MoveRegReg" => reg'[last'.ret.dst] = reg[last'.ret.src]]_vars

\* C12 (amended): the same for every dst in {R0,R1,R2,R3} and every src in
\* {R0,R1,R2,R3,IP}; when dst is IP, the increment follows the write, and
\* after the step IP holds the moved value plus 1 (modulo 256).
C12_RegisterMoves ==
    [][(StepTaken /\ fault' = "none") =>
          /\ last'.ret.tag = "MoveRegImm" =>
                reg'[last'.ret.dst] =
                    IF last'.ret.dst = "IP" THEN (last'.ret.imm + 1) % 256 ELSE last'.ret.imm
          /\ last'.ret.tag = "MoveRegReg" =>
                reg'[last'.ret.dst] =
                    IF last'.ret.dst = "IP" THEN (reg[last'.ret.src] + 1) % 256
                    ELSE reg[last'.ret.src]]_vars

C12_Witness ==
    /\ Returned
    /\ last.ret = MoveRegReg("R1", "IP")
    /\ last.ip = 13
    /\ reg["R1"] = 13
    /\ reg["IP"] = 14
    /\ reg["R3"] = 44

\* the value most recently written to a data offset, 0 if none since
\* construction or reset
LastWritten(o) == IF o \in DOMAIN written THEN written[o] ELSE 0

\* C13 (as stated): with offset = 256 * mem_high + mem_low < 768, after
\* MoveMemImm the data byte at offset is imm, after MoveMemReg it is the
\* pre-step value of src, and after MoveRegMem register dst holds the data
\* byte at offset, the value most recently written there (0 if none).
C13_MemoryMovesAnyDst ==
    [][(StepTaken /\ fault' = "none"
          /\ last'.ret.tag \in {"MoveMemImm", "MoveMemReg", "MoveRegMem"}) =>
          LET op == last'.ret
              offset == 256 * op.mem_high + op.mem_low
          IN offset < 768 =>
               /\ op.tag = "MoveMemImm" => bytes'[256 + offset] = op.imm
               /\ op.tag = "MoveMemReg" => bytes'[256 + offset] = reg[op.src]
               /\ op.tag = "MoveRegMem" =>
                     /\ reg'[op.dst] = bytes[256 + offset]
                     /\ bytes[256 + offset] = LastWritten(offset)]_vars

\* C13 (amended): the same, with MoveRegMem setting dst to the data byte at
\* offset for dst in {R0,R1,R2,R3}; when dst is IP the increment follows the
\* write, and after the step IP holds that byte plus 1 (modulo 256).
C13_MemoryMoves ==
    [][(StepTaken /\ fault' = "none"
          /\ last'.ret.tag \in {"MoveMemImm", "MoveMemReg", "MoveRegMem"}) =>
          LET op == last'.ret
              offset == 256 * op.mem_high + op.mem_low
          IN offset < 768 =>
               /\ op.tag = "MoveMemImm" => bytes'[256 + offset] = op.imm
               /\ op.tag = "MoveMemReg" => bytes'[256 + offset] = reg[op.src]
               /\ op.tag = "MoveRegMem" =>
                     /\ reg'[op.dst] =
                           IF op.dst = "IP" THEN (bytes[256 + offset] + 1) % 256
                           ELSE bytes[256 + offset]
                     /\ bytes[256 + offset] = LastWritten(offset)]_vars

\* a read of offset 258 after an immediate and then a register were written
C13_Witness ==
    /\ Returned
    /\ last.ret = MoveRegMem("R2", 1, 2)
    /\ reg["R2"] = 201
    /\ reg["R3"] = 201
    /\ bytes[256 + 258] = 201
    /\ bytes[256 + 513] = 0
    /\ written[258] = 201

\* step() is about to execute a memory move whose offset is 768 or more
OutOfDataStep ==
    /\ StepTaken
    /\ reg["IP"] < 64
    /\ LET b == TextSlot(bytes, reg["IP"]) IN
          \/ (b[1] \in {32, 33} /\ b[2] * 256 + b[3] >= 768)
          \/ (b[1] = 34 /\ b[3] * 256 + b[4] >= 768)

\* C14 (as stated): a step() executing MoveMemImm, MoveMemReg or MoveRegMem
\* with an offset of 768 or more completes silently, returns the instruction
\* and advances IP like any other.
C14_OutOfDataSilent ==
    [][OutOfDataStep =>
          /\ fault' = "none"
          /\ last'.ret = Decode(TextSlot(bytes, reg["IP"]))
          /\ reg'["IP"] = reg["IP"] + 1]_vars

\* C14 (amended): such a step() is not rejected by a check of the Kpu's own,
\* but the index into the 768-byte data view is bounds-checked: the step
\* panics, returns no instruction, does not advance IP and changes no
\* register and no byte of the buffer.
C14_OutOfDataPanics ==
    [][OutOfDataStep =>
          /\ fault' = "data_index"
          /\ last'.ret.tag = "Panic"
          /\ reg' = reg
          /\ bytes' = bytes]_vars

C14_Witness ==
    /\ fault = "data_index"
    /\ last.op = "step"
    /\ last.ip = 1
    /\ reg["IP"] = 1
    /\ reg["R1"] = 5
    /\ Decode(TextSlot(bytes, 1)) = MoveMemReg(255, 255, "R1")

HaltSlots(P) == {i \in 1 .. Len(P) : P[i].tag = "Halt"}

\* position in P (counted from 1) of its first Halt
FirstHalt(P) == CHOOSE i \in HaltSlots(P) : \A j \in HaltSlots(P) : i <= j

\* no instruction before position n has IP as destination register or a data
\* offset of 768 or more
StraightBefore(P, n) ==
    \A i \in 1 .. (n - 1) :
        /\ ~WritesIp(P[i])
        /\ P[i].tag \in {"MoveMemImm", "MoveMemReg", "MoveRegMem"} =>
              256 * P[i].mem_high + P[i].mem_low < 768

\* C15: for a program P loaded into a fresh or just reset Kpu, with first Halt
\* at slot h and before it no instruction with destination IP or data offset
\* >= 768, the k-th step() returns P[k-1] for k = 1..h+1; no step before the
\* (h+1)-th returns Halt, and the (h+1)-th returns Halt with IP = h.
C15_ProgramOrder ==
    (/\ setup.op = "load"
     /\ setup.fresh
     /\ setup.ret.tag = "Ok"
     /\ HaltSlots(setup.ops) # {}
     /\ StraightBefore(setup.ops, FirstHalt(setup.ops)))
    => LET P == setup.ops
           h == FirstHalt(P) - 1
       IN /\ nsteps \in 1 .. (h + 1) =>
                /\ last.op = "step"
                /\ fault = "none"
                /\ last.ret = P[nsteps]
                /\ last.ip = nsteps - 1
          /\ nsteps \in 1 .. h => (nhalts = 0 /\ reg["IP"] = nsteps)
          /\ nsteps = h + 1 => (nhalts = 1 /\ reg["IP"] = h)

\* the program with two Halts stops at the first
C15_Witness ==
    /\ setup.op = "load"
    /\ setup.fresh
    /\ setup.ops = <<MoveRegImm("R1", 7), Halt, MoveRegImm("R1", 9), Halt>>
    /\ nsteps = 2
    /\ nhalts = 1
    /\ last.ret = Halt
    /\ reg["IP"] = 1
    /\ reg["R1"] = 7

\* C16: apart from the IP advance, a step changes at most one storage cell:
\* Nop (and Halt) nothing; MoveRegImm, MoveRegReg and MoveRegMem only register
\* dst and no memory byte; MoveMemImm and MoveMemReg only the data byte at the
\* offset (< 768) and no register other than IP.
C16_StepFrame ==
    [][(StepTaken /\ fault' = "none") =>
          LET op == last'.ret IN
          /\ op.tag \in {"Nop", "Halt"} =>
                /\ \A r \in {"R0", "R1", "R2", "R3"} : reg'[r] = reg[r]
                /\ bytes' = bytes
          /\ op.tag \in {"MoveRegImm", "MoveRegReg", "MoveRegMem"} =>
                /\ \A r \in {"R0", "R1", "R2", "R3"} \ {op.dst} : reg'[r] = reg[r]
                /\ bytes' = bytes
          /\ op.tag \in {"MoveMemImm", "MoveMemReg"} =>
                /\ \A r \in {"R0", "R1", "R2", "R3"} : reg'[r] = reg[r]
                /\ 256 * op.mem_high + op.mem_low < 768
                /\ \A a \in (0 .. 1023) \ {256 + 256 * op.mem_high + op.mem_low} :
                      bytes'[a] = bytes[a]]_vars

\* the last data byte written from a register, its neighbour untouched
C16_Witness ==
    /\ Returned
    /\ last.ret = MoveMemReg(2, 255, "R0")
    /\ reg["R0"] = 207
    /\ reg["R3"] = 107
    /\ bytes[1023] = 207
    /\ bytes[1022] = 0
    /\ reg["IP"] = last.ip + 1

\* C17: load() never changes a register or a data byte, so after a load on a
\* Kpu that has been stepped the next step() executes the slot at the old IP
\* (returning the instruction the new program has there), not slot 0.
C17_LoadKeepsRegistersAndData ==
    /\ [][LoadTaken =>
            /\ reg' = reg
            /\ \A o \in 0 .. 767 : bytes'[256 + o] = bytes[256 + o]]_vars
    /\ []((setup.op = "load" /\ nsteps = 1) =>
            /\ last.op = "step"
            /\ last.ip = setup.ip
            /\ (fault = "none" /\ setup.ret.tag = "Ok" /\ setup.ip < Len(setup.ops)) =>
                  last.ret = setup.ops[setup.ip + 1])

\* main's program loaded a second time after one step: slot 1 runs next
C17_Witness ==
    /\ setup.op = "load"
    /\ ~setup.fresh
    /\ setup.ip = 1
    /\ nloads = 2
    /\ nsteps = 1
    /\ last.ret = MoveRegReg("R1", "R0")
    /\ reg["R0"] = 3
    /\ reg["R1"] = 3
    /\ reg["IP"] = 2

\* C18: after reset() and with no new load, every text slot decodes to Nop,
\* and each of the next 64 step() calls (those fetching slots 0..63) returns
\* Nop and advances IP by 1; none returns Halt or another instruction.
C18_ResetErasesProgram ==
    setup.op = "reset" =>
        /\ \A i \in 0 .. 63 : TextSlot(bytes, i) = <<0, 0, 0, 0>> /\ Decode(TextSlot(bytes, i)) = Nop
        /\ last.op = "reset" => (reg["IP"] = 0 /\ nsteps = 0)
        /\ nsteps >= 1 => (last.op = "step" /\ reg["IP"] >= nsteps)
        /\ (last.op = "step" /\ last.ip < 64) =>
              /\ fault = "none"
              /\ last.ret = Nop
              /\ reg["IP"] = last.ip + 1
        /\ nhalts = 0

\* the 64th step after the reset of a loaded Kpu
C18_Witness ==
    /\ setup.op = "reset"
    /\ nloads >= 1
    /\ last.op = "step"
    /\ last.ip = 63
    /\ last.ret = Nop
    /\ reg["IP"] = 64
    /\ fault = "none"

\* C19: the IP increment never overflows the 8-bit register: a step() that
\* reaches the increment finds IP at most 254, so it neither panics on the
\* addition nor wraps IP to 0.
C19_IpIncrementFits ==
    last.op = "step" =>
        /\ fault # "ip_overflow"
        /\ (fault = "none" /\ last.ret.tag # "Halt") => reg["IP"] # 0

====
